---- MODULE Spec2Model ----
(***************************************************************************)
(* A model of the two Tello scripts, tello_test.py (a canned flight) and   *)
(* wifi-test.py (a Wi-Fi reconfiguration probe).  Each script owns one UDP *)
(* socket bound to port 9000 and sends plaintext commands to the drone at  *)
(* 192.168.10.1:8889.  Text is a sequence of code points, a datagram's     *)
(* payload a sequence of bytes.  Time is counted in seconds by `timer`,    *)
(* the rest of the running time.sleep or of the socket timeout; the drone  *)
(* and the network take any time they like.                                *)
(***************************************************************************)
EXTENDS Integers, Sequences, FiniteSets, TLC

VARIABLES
    script,    \* which script runs: "tello" (tello_test.py) or "wifi" (wifi-test.py)
    pc,        \* main's position
    ip,        \* index of the current statement of the try block
    timer,     \* seconds left of the running sleep / socket timeout
    sock,      \* "none", "open" (created), "bound", "closed"
    exc,       \* the exception propagating in main: "none" or the call that raised
    fault,     \* the local socket call the environment made fail ("none" if none)
    calls,     \* the cmd argument of every call of send, in order
    handed,    \* every datagram given to sock.sendto, in order
    inflight,  \* indices (into handed) of commands not yet answered, finished or lost
    inbox,     \* payloads of the datagrams queued in the socket's receive buffer, oldest first
    data,      \* recv's local `data`: the bytes the last recvfrom returned
    ret,       \* the value the last call of recv returned
    resp,      \* main's local `resp` (wifi-test.py)
    rxlog,     \* how each recvfrom ended: "data", "timeout" or "oserror"
    concl      \* the conclusions main printed (wifi-test.py)

vars == <<script, pc, ip, timer, sock, exc, fault, calls, handed, inflight,
          inbox, data, ret, resp, rxlog, concl>>

----------------------------------------------------------------------------
(* Bounds of the model *)

\* capacity of the socket's receive buffer, in datagrams
MaxInbox == 2

\* longest payload of the decoding specification, in bytes
MaxPayloadLen == 3

----------------------------------------------------------------------------
(* Program constants *)

TELLO_IP == "192.168.10.1"

TELLO_PORT == 8889

ADDR == <<TELLO_IP, TELLO_PORT>>

LOCAL_PORT == 9000

BUFSIZE == 1024

\* "command"
CmdCommand == <<99, 111, 109, 109, 97, 110, 100>>

\* "speed 50"
CmdSpeed == <<115, 112, 101, 101, 100, 32, 53, 48>>

\* "takeoff"
CmdTakeoff == <<116, 97, 107, 101, 111, 102, 102>>

\* "up 40"
CmdUp == <<117, 112, 32, 52, 48>>

\* "forward 100"
CmdForward == <<102, 111, 114, 119, 97, 114, 100, 32, 49, 48, 48>>

\* "cw 180"
CmdCw == <<99, 119, 32, 49, 56, 48>>

\* "land"
CmdLand == <<108, 97, 110, 100>>

\* "ap egg thewifipassword"
CmdAp == <<97, 112, 32, 101, 103, 103, 32, 116, 104, 101, 119, 105, 102, 105,
           112, 97, 115, 115, 119, 111, 114, 100>>

\* "ok"
TextOk == <<111, 107>>

\* "error"
TextError == <<101, 114, 114, 111, 114>>

\* "unknown command: ap"
TextUnknown == <<117, 110, 107, 110, 111, 119, 110, 32, 99, 111, 109, 109, 97,
                 110, 100, 58, 32, 97, 112>>

----------------------------------------------------------------------------
(* str.encode("utf-8"), bytes.decode("utf-8", errors=...), str.strip() *)

RECURSIVE Utf8Encode(_)
Utf8Encode(s) ==
    IF s = <<>> THEN <<>>
    ELSE LET c == Head(s)
             b == IF c < 128 THEN <<c>>
                  ELSE IF c < 2048 THEN <<192 + (c \div 64), 128 + (c % 64)>>
                  ELSE IF c < 65536
                       THEN <<224 + (c \div 4096), 128 + ((c \div 64) % 64),
                              128 + (c % 64)>>
                  ELSE <<240 + (c \div 262144), 128 + ((c \div 4096) % 64),
                         128 + ((c \div 64) % 64), 128 + (c % 64)>>
         IN b \o Utf8Encode(Tail(s))

IsCont(b) == b >= 128 /\ b < 192

Drop(b, n) == SubSeq(b, n + 1, Len(b))

\* One step of CPython's UTF-8 decoder at the head of b (b nonempty):
\* [ok |-> a code point was decoded, cp |-> it, n |-> bytes consumed or in error].
Utf8Step(b) ==
    LET c == b[1]
        l == Len(b)
        bad(n) == [ok |-> FALSE, cp |-> 0, n |-> n]
        good(cp, n) == [ok |-> TRUE, cp |-> cp, n |-> n]
    IN  IF c < 128 THEN good(c, 1)
        ELSE IF c < 194 THEN bad(1)                    \* invalid start byte
        ELSE IF c < 224 THEN
            IF l < 2 THEN bad(l)                       \* unexpected end of data
            ELSE IF ~IsCont(b[2]) THEN bad(1)          \* invalid continuation byte
            ELSE good((c - 192) * 64 + (b[2] - 128), 2)
        ELSE IF c < 240 THEN
            IF l < 2 THEN bad(l)
            ELSE IF ~IsCont(b[2]) \/ (b[2] < 160 /\ c = 224) \/ (b[2] >= 160 /\ c = 237)
                 THEN bad(1)
            ELSE IF l < 3 THEN bad(l)
            ELSE IF ~IsCont(b[3]) THEN bad(2)
            ELSE good((c - 224) * 4096 + (b[2] - 128) * 64 + (b[3] - 128), 3)
        ELSE IF c < 245 THEN
            IF l < 2 THEN bad(l)
            ELSE IF ~IsCont(b[2]) \/ (b[2] < 144 /\ c = 240) \/ (b[2] >= 144 /\ c = 244)
                 THEN bad(1)
            ELSE IF l < 3 THEN bad(l)
            ELSE IF ~IsCont(b[3]) THEN bad(2)
            ELSE IF l < 4 THEN bad(l)
            ELSE IF ~IsCont(b[4]) THEN bad(3)
            ELSE good((c - 240) * 262144 + (b[2] - 128) * 4096
                      + (b[3] - 128) * 64 + (b[4] - 128), 4)
        ELSE bad(1)

\* errors="replace": every erroneous range becomes U+FFFD
RECURSIVE DecodeReplace(_)
DecodeReplace(b) ==
    IF b = <<>> THEN <<>>
    ELSE LET r == Utf8Step(b)
         IN (IF r.ok THEN <<r.cp>> ELSE <<65533>>) \o DecodeReplace(Drop(b, r.n))

\* errors="ignore": every erroneous range is dropped
RECURSIVE DecodeIgnore(_)
DecodeIgnore(b) ==
    IF b = <<>> THEN <<>>
    ELSE LET r == Utf8Step(b)
         IN (IF r.ok THEN <<r.cp>> ELSE <<>>) \o DecodeIgnore(Drop(b, r.n))

\* str.isspace() of one character
IsSpace(c) ==
    \/ c \in {9, 10, 11, 12, 13, 28, 29, 30, 31, 32, 133, 160, 5760}
    \/ c \in 8192..8202
    \/ c \in {8232, 8233, 8239, 8287, 12288}

RECURSIVE LStrip(_)
LStrip(s) == IF s # <<>> /\ IsSpace(Head(s)) THEN LStrip(Tail(s)) ELSE s

RECURSIVE RStrip(_)
RStrip(s) ==
    IF s # <<>> /\ IsSpace(s[Len(s)]) THEN RStrip(SubSeq(s, 1, Len(s) - 1)) ELSE s

Strip(s) == RStrip(LStrip(s))

----------------------------------------------------------------------------
(* The two scripts *)

\* TelloProgram without its last statement
TelloProgramNoLand ==
    << [cmd |-> CmdCommand, delay |-> 1],
       [cmd |-> CmdSpeed,   delay |-> 3],
       [cmd |-> CmdTakeoff, delay |-> 4],
       [cmd |-> CmdUp,      delay |-> 3],
       [cmd |-> CmdForward, delay |-> 4],
       [cmd |-> CmdCw,      delay |-> 5],
       [cmd |-> CmdForward, delay |-> 7] >>

\* tello_test.py: the body of main's try block, send(sock, cmd, delay)
TelloProgram ==
    << [cmd |-> CmdCommand, delay |-> 1],
       [cmd |-> CmdSpeed,   delay |-> 3],
       [cmd |-> CmdTakeoff, delay |-> 4],
       [cmd |-> CmdUp,      delay |-> 3],
       [cmd |-> CmdForward, delay |-> 4],
       [cmd |-> CmdCw,      delay |-> 5],
       [cmd |-> CmdForward, delay |-> 7],
       [cmd |-> CmdLand,    delay |-> 3] >>

\* wifi-test.py: the body of main's try block
WifiProgram ==
    << [op |-> "send", cmd |-> CmdCommand, timeout |-> 0, assign |-> FALSE],
       [op |-> "recv", cmd |-> <<>>,       timeout |-> 3, assign |-> FALSE],
       [op |-> "send", cmd |-> CmdAp,      timeout |-> 0, assign |-> FALSE],
       [op |-> "recv", cmd |-> <<>>,       timeout |-> 8, assign |-> TRUE],
       [op |-> "if",   cmd |-> <<>>,       timeout |-> 0, assign |-> FALSE] >>

\* a value returned by recv: None, or a str
None == [none |-> TRUE, text |-> <<>>]

Text(s) == [none |-> FALSE, text |-> s]

\* what the drone may answer: "ok", "error", "unknown command: ap"
ReplyPayloads == {TextOk, TextError, TextUnknown}

\* SendTo with the local port taken for the drone's
SendToLocalPort(cmd, ok) ==
    [payload |-> Utf8Encode(cmd), addr |-> <<TELLO_IP, LOCAL_PORT>>, ok |-> ok]

\* the datagram sock.sendto(cmd.encode("utf-8"), ADDR) hands to the transport
SendTo(cmd, ok) == [payload |-> Utf8Encode(cmd), addr |-> ADDR, ok |-> ok]

\* RecvFrom taking the newest datagram of the buffer
RecvFromNewest(q) ==
    [data |-> SubSeq(q[Len(q)], 1, IF Len(q[Len(q)]) < BUFSIZE THEN Len(q[Len(q)]) ELSE BUFSIZE),
     rest |-> SubSeq(q, 1, Len(q) - 1)]

\* sock.recvfrom(1024) on a nonempty receive buffer q: the oldest datagram,
\* cut to the buffer size
RecvFrom(q) ==
    [data |-> SubSeq(Head(q), 1, IF Len(Head(q)) < BUFSIZE THEN Len(Head(q)) ELSE BUFSIZE),
     rest |-> Tail(q)]

\* Decode with errors="replace"
DecodeWithReplace(b) == DecodeReplace(b)

\* data.decode("utf-8", errors="ignore")
Decode(b) == DecodeIgnore(b)

\* sock.close(): the state it leaves the socket in, and whether it raises
SockClose(s) == [state |-> "closed", raises |-> FALSE]

----------------------------------------------------------------------------
Init ==
    /\ script \in {"tello", "wifi"}
    /\ pc = "create"
    /\ ip = 1
    /\ timer = 0
    /\ sock = "none"
    /\ exc = "none"
    /\ fault = "none"
    /\ calls = <<>>
    /\ handed = <<>>
    /\ inflight = {}
    /\ inbox = <<>>
    /\ data = <<>>
    /\ ret = None
    /\ resp = None
    /\ rxlog = <<>>
    /\ concl = <<>>

\* sock = socket.socket(AF_INET, SOCK_DGRAM)
CreateSocket ==
    /\ pc = "create"
    /\ \/ /\ sock' = "open"
          /\ pc' = "bind"
          /\ UNCHANGED <<exc, fault>>
       \/ /\ exc' = "socket"
          /\ fault' = "socket"
          /\ pc' = "done"
          /\ UNCHANGED sock
    /\ UNCHANGED <<script, ip, timer, calls, handed, inflight, inbox, data,
                   ret, resp, rxlog, concl>>

\* sock.bind(("", 9000)), before the try block: an OSError leaves main at once
Bind ==
    /\ pc = "bind"
    /\ \/ /\ sock' = "bound"
          /\ pc' = "stmt"
          /\ UNCHANGED <<exc, fault>>
       \/ /\ exc' = "bind"
          /\ fault' = "bind"
          /\ pc' = "done"
          /\ UNCHANGED sock
    /\ UNCHANGED <<script, ip, timer, calls, handed, inflight, inbox, data,
                   ret, resp, rxlog, concl>>

\* tello_test.send up to time.sleep: sendto accepts the datagram (ok) or raises
TelloSend(ok) ==
    /\ script = "tello"
    /\ pc = "stmt"
    /\ ip <= Len(TelloProgram)
    /\ calls' = Append(calls, TelloProgram[ip].cmd)
    /\ handed' = Append(handed, SendTo(TelloProgram[ip].cmd, ok))
    /\ IF ok
       THEN /\ inflight' = inflight \cup {Len(handed) + 1}
            /\ timer' = TelloProgram[ip].delay
            /\ pc' = "sleep"
            /\ UNCHANGED <<exc, fault>>
       ELSE /\ exc' = "sendto"
            /\ fault' = "sendto"
            /\ pc' = "finally"
            /\ UNCHANGED <<inflight, timer>>
    /\ UNCHANGED <<script, ip, sock, inbox, data, ret, resp, rxlog, concl>>

\* one second of a time.sleep or of a blocking recvfrom goes by
Tick ==
    /\ pc \in {"sleep", "wait"}
    /\ timer > 0
    /\ timer' = timer - 1
    /\ UNCHANGED <<script, pc, ip, sock, exc, fault, calls, handed, inflight,
                   inbox, data, ret, resp, rxlog, concl>>

\* TelloSleepDone reading the drone's answer after the sleep and raising on "error"
TelloSleepDoneChecked ==
    /\ script = "tello"
    /\ pc = "sleep"
    /\ timer = 0
    /\ IF inbox # <<>> /\ Head(inbox) = TextError
       THEN /\ exc' = "device"
            /\ pc' = "finally"
            /\ UNCHANGED ip
       ELSE /\ ip' = ip + 1
            /\ pc' = IF ip = Len(TelloProgram) THEN "finally" ELSE "stmt"
            /\ UNCHANGED exc
    /\ UNCHANGED <<script, timer, sock, fault, calls, handed, inflight,
                   inbox, data, ret, resp, rxlog, concl>>

\* time.sleep(delay) returns, send returns, main goes to its next statement
TelloSleepDone ==
    /\ script = "tello"
    /\ pc = "sleep"
    /\ timer = 0
    /\ ip' = ip + 1
    /\ pc' = IF ip = Len(TelloProgram) THEN "finally" ELSE "stmt"
    /\ UNCHANGED <<script, timer, sock, exc, fault, calls, handed, inflight,
                   inbox, data, ret, resp, rxlog, concl>>

\* wifi-test.send
WifiSend(ok) ==
    /\ script = "wifi"
    /\ pc = "stmt"
    /\ WifiProgram[ip].op = "send"
    /\ calls' = Append(calls, WifiProgram[ip].cmd)
    /\ handed' = Append(handed, SendTo(WifiProgram[ip].cmd, ok))
    /\ IF ok
       THEN /\ inflight' = inflight \cup {Len(handed) + 1}
            /\ ip' = ip + 1
            /\ UNCHANGED <<pc, exc, fault>>
       ELSE /\ exc' = "sendto"
            /\ fault' = "sendto"
            /\ pc' = "finally"
            /\ UNCHANGED <<inflight, ip>>
    /\ UNCHANGED <<script, timer, sock, inbox, data, ret, resp, rxlog, concl>>

\* recv: sock.settimeout(timeout), then recvfrom blocks
RecvSetTimeout ==
    /\ script = "wifi"
    /\ pc = "stmt"
    /\ WifiProgram[ip].op = "recv"
    /\ timer' = WifiProgram[ip].timeout
    /\ pc' = "wait"
    /\ UNCHANGED <<script, ip, sock, exc, fault, calls, handed, inflight,
                   inbox, data, ret, resp, rxlog, concl>>

\* recv: recvfrom returns a datagram; recv returns its decoded, stripped text
RecvData ==
    /\ pc = "wait"
    /\ inbox # <<>>
    /\ data' = RecvFrom(inbox).data
    /\ inbox' = RecvFrom(inbox).rest
    /\ ret' = Text(Strip(Decode(RecvFrom(inbox).data)))
    /\ resp' = IF WifiProgram[ip].assign
               THEN Text(Strip(Decode(RecvFrom(inbox).data)))
               ELSE resp
    /\ rxlog' = Append(rxlog, "data")
    /\ timer' = 0
    /\ ip' = ip + 1
    /\ pc' = "stmt"
    /\ UNCHANGED <<script, sock, exc, fault, calls, handed, inflight, concl>>

\* RecvTimeout without the except clause: socket.timeout leaves recv
RecvTimeoutRaises ==
    /\ pc = "wait"
    /\ timer = 0
    /\ inbox = <<>>
    /\ exc' = "timeout"
    /\ rxlog' = Append(rxlog, "timeout")
    /\ pc' = "finally"
    /\ UNCHANGED <<script, ip, timer, sock, fault, calls, handed, inflight,
                   inbox, data, ret, resp, concl>>

\* recv: the timeout expires with nothing received; recv returns None
RecvTimeout ==
    /\ pc = "wait"
    /\ timer = 0
    /\ inbox = <<>>
    /\ ret' = None
    /\ resp' = IF WifiProgram[ip].assign THEN None ELSE resp
    /\ rxlog' = Append(rxlog, "timeout")
    /\ ip' = ip + 1
    /\ pc' = "stmt"
    /\ UNCHANGED <<script, timer, sock, exc, fault, calls, handed, inflight,
                   inbox, data, concl>>

\* recv: recvfrom raises an OSError that is not socket.timeout
RecvRaises ==
    /\ pc = "wait"
    /\ exc' = "recvfrom"
    /\ fault' = "recvfrom"
    /\ rxlog' = Append(rxlog, "oserror")
    /\ timer' = 0
    /\ pc' = "finally"
    /\ UNCHANGED <<script, ip, sock, calls, handed, inflight, inbox, data,
                   ret, resp, concl>>

\* the if / elif / else on resp
Conclude ==
    /\ script = "wifi"
    /\ pc = "stmt"
    /\ WifiProgram[ip].op = "if"
    /\ concl' = Append(concl, IF resp = Text(TextOk) THEN "sent_ok"
                              ELSE IF resp = Text(TextError) THEN "error"
                              ELSE "no_response")
    /\ pc' = "finally"
    /\ UNCHANGED <<script, ip, timer, sock, exc, fault, calls, handed,
                   inflight, inbox, data, ret, resp, rxlog>>

\* Finally leaving main by a return, which drops the pending exception
FinallySwallows ==
    /\ pc = "finally"
    /\ sock' = SockClose(sock).state
    /\ exc' = "none"
    /\ inbox' = <<>>
    /\ pc' = "done"
    /\ UNCHANGED <<script, ip, timer, fault, calls, handed, inflight, data,
                   ret, resp, rxlog, concl>>

\* finally: sock.close(); a pending exception then leaves main
Finally ==
    /\ pc = "finally"
    /\ sock' = SockClose(sock).state
    /\ exc' = IF SockClose(sock).raises THEN "close" ELSE exc
    /\ inbox' = <<>>
    /\ pc' = "done"
    /\ UNCHANGED <<script, ip, timer, fault, calls, handed, inflight, data,
                   ret, resp, rxlog, concl>>

\* the drone finishes command i and answers p; the answer is queued at the
\* socket if it is bound and its buffer has room, and is dropped otherwise
DeviceReply(i, p) ==
    /\ i \in inflight
    /\ inflight' = inflight \ {i}
    /\ inbox' = IF sock = "bound" /\ Len(inbox) < MaxInbox
                THEN Append(inbox, p)
                ELSE inbox
    /\ UNCHANGED <<script, pc, ip, timer, sock, exc, fault, calls, handed,
                   data, ret, resp, rxlog, concl>>

\* command i is lost, or the drone finishes it without an answer
Silence(i) ==
    /\ i \in inflight
    /\ inflight' = inflight \ {i}
    /\ UNCHANGED <<script, pc, ip, timer, sock, exc, fault, calls, handed,
                   inbox, data, ret, resp, rxlog, concl>>

Next ==
    \/ CreateSocket
    \/ Bind
    \/ \E ok \in BOOLEAN : TelloSend(ok)
    \/ Tick
    \/ TelloSleepDone
    \/ \E ok \in BOOLEAN : WifiSend(ok)
    \/ RecvSetTimeout
    \/ RecvData
    \/ RecvTimeout
    \/ RecvRaises
    \/ Conclude
    \/ Finally
    \/ \E i \in 1..Len(handed) : \E p \in ReplyPayloads : DeviceReply(i, p)
    \/ \E i \in 1..Len(handed) : Silence(i)

Spec == Init /\ [][Next]_vars

----------------------------------------------------------------------------
(* The decoding of one datagram: wifi-test.py at the recv of line 31, the  *)
(* first recv timed out, and a datagram of any bytes is in the buffer.     *)

ByteAlphabet == {32, 107, 111, 169, 195, 226, 255}

RECURSIVE BytesUpTo(_)
BytesUpTo(n) ==
    IF n = 0 THEN {<<>>}
    ELSE LET S == BytesUpTo(n - 1)
         IN S \cup {Append(b, x) : b \in S, x \in ByteAlphabet}

DecodeInit ==
    /\ script = "wifi"
    /\ pc = "wait"
    /\ ip = 4
    /\ timer = 8
    /\ sock = "bound"
    /\ exc = "none"
    /\ fault = "none"
    /\ calls = <<CmdCommand, CmdAp>>
    /\ handed = <<SendTo(CmdCommand, TRUE), SendTo(CmdAp, TRUE)>>
    /\ inflight = {}
    /\ inbox \in {<<b>> : b \in BytesUpTo(MaxPayloadLen)}
    /\ data = <<>>
    /\ ret = None
    /\ resp = None
    /\ rxlog = <<"timeout">>
    /\ concl = <<>>

DecodeNext == RecvData \/ Conclude \/ Finally

DecodeSpec == DecodeInit /\ [][DecodeNext]_vars

----------------------------------------------------------------------------
(* Properties *)

Last(s) == s[Len(s)]

RECURSIVE IsSubseq(_, _)
IsSubseq(a, b) ==
    IF a = <<>> THEN TRUE
    ELSE IF b = <<>> THEN FALSE
    ELSE IF Head(a) = Head(b) THEN IsSubseq(Tail(a), Tail(b))
    ELSE IsSubseq(a, Tail(b))

IsPrintable(c) == c < 128 /\ ~IsSpace(c)

\* command cmd was handed to sendto and accepted
Sent(cmd) == \E i \in 1..Len(handed) : handed[i].ok /\ handed[i].payload = cmd

TelloWire ==
    <<CmdCommand, CmdSpeed, CmdTakeoff, CmdUp, CmdForward, CmdCw, CmdForward, CmdLand>>

\* C1: every run of main that created the socket ends with the socket closed,
\* on every exit path, a failing bind included.
C1_SocketClosedAtExit == (pc = "done" /\ sock # "none") => sock = "closed"

\* C2: at most one command is in flight at any time: when a command is sent,
\* every command sent before it has been answered, finished or lost.
C2_AtMostOneInFlight == Cardinality(inflight) <= 1

\* C3: every call of send hands sendto exactly one datagram, the UTF-8 bytes
\* of cmd, addressed to ("192.168.10.1", 8889); the datagrams are the calls,
\* in order.
C3_OneDatagramPerSend ==
    /\ Len(handed) = Len(calls)
    /\ \A i \in 1..Len(handed) :
          /\ handed[i].addr = <<"192.168.10.1", 8889>>
          /\ Len(handed[i].payload) = Len(calls[i])
          /\ DecodeIgnore(handed[i].payload) = calls[i]
          /\ DecodeReplace(handed[i].payload) = calls[i]

C3_Witness ==
    /\ script = "wifi"
    /\ Len(calls) = 2
    /\ calls[2] = CmdAp
    /\ handed[2].payload = CmdAp
    /\ handed[2].ok

\* C4: a recv whose timeout expires with no datagram returns None: it does
\* not raise, sends nothing again, and main goes on with its next statement;
\* a waiting recv has at most its timeout left, which only runs down, and
\* can always go on: a second passes, or the timeout expires and recv returns.
C4_TimeoutReturnsNone ==
    /\ [][(pc = "wait" /\ timer = 0 /\ inbox = <<>> /\ pc' # pc /\ fault' = fault)
            => /\ ret' = None
               /\ exc' = "none"
               /\ handed' = handed
               /\ calls' = calls
               /\ rxlog' = Append(rxlog, "timeout")
               /\ pc' = "stmt"
               /\ ip' = ip + 1]_vars
    /\ [](pc = "wait" =>
            /\ timer \in 0..WifiProgram[ip].timeout
            /\ (timer > 0 => ENABLED Tick)
            /\ ((timer = 0 /\ inbox = <<>>) => ENABLED RecvTimeout))
    /\ [][(pc = "wait" /\ pc' = "wait") => timer' <= timer]_vars

C4_Witness ==
    /\ script = "wifi"
    /\ pc = "stmt"
    /\ ip = 3
    /\ rxlog = <<"timeout">>
    /\ ret = None
    /\ exc = "none"
    /\ Len(handed) = 1

\* C5: recv returns the stripped decoded text of the oldest datagram in the
\* socket's buffer, whatever command it answers; datagrams queue in the order
\* they arrive, and the value of the recv of line 31 becomes resp.
C5_FirstDatagramReturned ==
    /\ [][(Len(rxlog') = Len(rxlog) + 1 /\ Last(rxlog') = "data")
            => /\ inbox # <<>>
               /\ data' = Head(inbox)
               /\ inbox' = Tail(inbox)
               /\ ret' = Text(Strip(DecodeIgnore(Head(inbox))))
               /\ (ip = 4 => resp' = ret')]_vars
    /\ [][Len(inbox') > Len(inbox)
            => \E p \in ReplyPayloads : inbox' = Append(inbox, p)]_vars

\* the first recv timed out, the second returned "ok" while "ap ..." was still
\* unanswered: the "ok" answers "command", and main concluded "Sent OK"
C5_Misattributed ==
    /\ script = "wifi"
    /\ rxlog = <<"timeout", "data">>
    /\ 2 \in inflight
    /\ resp = Text(TextOk)
    /\ concl = <<"sent_ok">>

\* C6 as stated: recv never raises, and returns the stripped text of the
\* payload decoded with every invalid sequence replaced by U+FFFD.
C6_InvalidReplaced ==
    (rxlog # <<>> /\ Last(rxlog) = "data")
        => /\ exc = "none"
           /\ ret = Text(Strip(DecodeReplace(data)))
           /\ (data = <<255>> \o TextOk => ret # Text(TextOk))

\* C6, amended: recv never raises, and returns the stripped text of the
\* payload decoded with every invalid sequence dropped: no U+FFFD appears,
\* the returned text re-encoded is a subsequence of the payload, no ASCII
\* character other than white space is lost, and invalid bytes followed by
\* "ok" are returned as exactly "ok".
C6_InvalidIgnored ==
    (rxlog # <<>> /\ Last(rxlog) = "data")
        => /\ exc = "none"
           /\ ~ret.none
           /\ \A i \in 1..Len(ret.text) : ret.text[i] # 65533
           /\ IsSubseq(Utf8Encode(ret.text), data)
           /\ SelectSeq(ret.text, IsPrintable) = SelectSeq(data, IsPrintable)
           /\ (ret.text # <<>> => ~IsSpace(Head(ret.text)) /\ ~IsSpace(Last(ret.text)))
           /\ (data = <<255>> \o TextOk => ret = Text(TextOk))

C6_Witness ==
    /\ rxlog = <<"timeout", "data">>
    /\ data = <<255>> \o TextOk
    /\ ret = Text(TextOk)
    /\ concl = <<"sent_ok">>

TelloProgress ==
    CASE pc = "create"  -> 0
      [] pc = "bind"    -> 1
      [] pc = "stmt"    -> 100 * ip
      [] pc = "sleep"   -> 100 * ip + 50 - timer
      [] pc = "finally" -> 1000
      [] pc = "done"    -> 1001

C9_NoResponseOnlyOnTimeout ==
    concl # <<>> =>
        /\ Len(concl) = 1
        /\ exc = "none"
        /\ (concl[1] = "no_response" => resp = None)
        /\ (concl[1] = "sent_ok" => resp = Text(TextOk))
        /\ (concl[1] = "error" => resp = Text(TextError))

\* C10 as stated: a run of tello_test.main that sent takeoff has sent land
\* when it ends.
C10_LandAlwaysSent ==
    (script = "tello" /\ pc = "done" /\ Sent(CmdTakeoff)) => Sent(CmdLand)

\* C10, amended: a run that sent takeoff ends with the socket closed; if no
\* send raised, land was sent, last and after takeoff; if a send raised, land
\* was not sent.
C10_LandUnlessSendRaises ==
    (script = "tello" /\ pc = "done" /\ Sent(CmdTakeoff))
        => /\ sock = "closed"
           /\ (exc = "none"
                 => /\ Sent(CmdLand)
                    /\ Last(handed).payload = CmdLand
                    /\ \E i \in 1..(Len(handed) - 1) : handed[i].payload = CmdTakeoff)
           /\ (exc # "none" => (exc = "sendto" /\ ~Sent(CmdLand)))

C10_Witness ==
    /\ script = "tello"
    /\ pc = "done"
    /\ Sent(CmdTakeoff)
    /\ exc = "sendto"
    /\ ~Sent(CmdLand)
    /\ sock = "closed"

====
